---- MODULE Spec2Model ----
(***************************************************************************)
(* Model of download_media (src/telegram_media_sync.py, lines 69-124): the *)
(* per-channel synchronisation loop with its ledger file                   *)
(* (.downloaded_ids.txt), the buffered append handle record_fp, the        *)
(* directory snapshot existing_files and the rate-limit retry.             *)
(*                                                                         *)
(* Text is modelled as sequences of character codes: 0..9 are the decimal  *)
(* digits, NL is "\n", DOT is "." and LETTER is any non-digit, non-dot     *)
(* character.  A Python int (unbounded) is represented by its canonical    *)
(* decimal numeral, so int() and str() are real conversions.               *)
(***************************************************************************)
EXTENDS Integers, Sequences, FiniteSets, TLC

\* ---------------------------------------------------------------- bounds
MaxMsgs == 3
MaxRuns == 2
MaxWait == 2
MaxLimit == 1
MaxDup == 2

\* ------------------------------------------------------------ characters
NL == 10
DOT == 11
LETTER == 12
Digits == 0..9

\* message ids offered by the Message Source (12 is the concatenation of 1 and 2)
IDS == {1, 2, 12}
NoLimit == 0

\* ------------------------------------------------------- pure functions
RECURSIVE Str(_)
\* str(message.id) / f"{message.id}"
Str(n) == IF n < 10 THEN <<n>> ELSE Append(Str(n \div 10), n % 10)

RECURSIVE IntOf(_)
\* int(line.strip()) of an all-digit line: the canonical numeral
IntOf(l) == IF Len(l) > 1 /\ Head(l) = 0 THEN IntOf(Tail(l)) ELSE l

\* line.strip().isdigit()
IsDigit(l) == l # <<>> /\ \A i \in 1..Len(l) : l[i] \in Digits

RECURSIVE Lines(_, _)
\* "for line in rf", each line stripped of its line break
Lines(s, cur) ==
  IF s = <<>> THEN (IF cur = <<>> THEN {} ELSE {cur})
  ELSE IF Head(s) = NL THEN {cur} \cup Lines(Tail(s), <<>>)
  ELSE Lines(Tail(s), Append(cur, Head(s)))

\* {int(line.strip()) for line in rf if line.strip().isdigit()}
Load(file) == {IntOf(l) : l \in {x \in Lines(file, <<>>) : IsDigit(x)}}

\* f.startswith(p)
StartsWith(f, p) == Len(p) <= Len(f) /\ SubSeq(f, 1, Len(p)) = p

\* any(f.startswith(f"{message.id}.") or f == str(message.id) for f in existing_files)
FileExists(id, files) ==
  \E f \in files : StartsWith(f, Str(id) \o <<DOT>>) \/ f = Str(id)

\* what the ledger write puts on the handle: f"{message.id}"
Entry(id) == Str(id)

\* basenames client.download_media may return for a message
RecordName == <<DOT, LETTER>>
ArtifactNames(id) ==
  { Str(id) \o <<DOT, LETTER>>, Str(id), <<LETTER>> \o Str(id) }

Min(a, b) == IF a <= b THEN a ELSE b

RECURSIVE SeqsUpTo(_)
\* histories: sequences of messages with pairwise distinct ids
SeqsUpTo(n) ==
  IF n = 0 THEN {<<>>}
  ELSE LET S == SeqsUpTo(n - 1)
       IN  S \cup { Append(s, [id |-> i, media |-> b]) :
                      s \in {t \in S : Len(t) = n - 1}, i \in IDS, b \in BOOLEAN }

Distinct(h) == \A i, j \in 1..Len(h) : i # j => h[i].id # h[j].id
Histories == {h \in SeqsUpTo(MaxMsgs) : Len(h) >= 1 /\ Distinct(h)}

\* histories over the ids 1 and 2 in which an id may repeat
DupHistories ==
  {h \in SeqsUpTo(MaxDup) : Len(h) >= 1 /\ \A i \in 1..Len(h) : h[i].id \in {1, 2}}

EmptyLog == [i \in IDS |-> <<>>]
Ev(e) == [e |-> e]

VARIABLES
  history,        \* what client.iter_messages yields for the channel, in order
  limit,          \* the limit argument (NoLimit = None)
  dirExists,      \* channel_dir exists
  ledgerExists,   \* record_file exists
  ledgerDisk,     \* content of record_file on disk
  dirFiles,       \* artifact names in channel_dir
  pc,             \* position of the run
  run,            \* number of runs finished
  downloaded_ids, \* the in-memory id set
  existing_files, \* the directory snapshot
  handleOpen,     \* record_fp is open
  buffer,         \* text written to record_fp and not yet on disk
  count,          \* the download counter
  idx,            \* messages pulled from the iterator in this run
  seconds,        \* e.seconds of the FloodWaitError being handled
  exc,            \* the exception that ended the run, "none" otherwise
  waited,         \* the durations slept for the message being processed
  log,            \* per id, the events of this run
  settledNow,     \* ids whose settlement this run wrote to the handle
  probedNow,      \* ids this run settled via the directory snapshot
  recorded,       \* ids whose settlement reached the ledger file in an earlier run
  loaded,         \* the set read from the ledger at the start of the latest run
  prevClean,      \* the previous run completed with every scanned media message settled
  prevLog,        \* per id, the events of the previous run (kept when audit is on)
  audit           \* whether the events of a run are kept for the next one

vars == <<history, limit, dirExists, ledgerExists, ledgerDisk, dirFiles, pc, run,
          downloaded_ids, existing_files, handleOpen, buffer, count, idx,
          seconds, exc, waited, log, settledNow, probedNow, recorded, loaded, prevClean,
          prevLog, audit>>

disk == <<dirExists, ledgerExists, ledgerDisk, dirFiles>>
inputs == <<history, limit, audit>>
ghost == <<recorded, loaded, prevClean, prevLog>>
local == <<seconds, waited>>

BufferSize == 8192

ScanLen == IF limit = NoLimit THEN Len(history) ELSE Min(limit, Len(history))
Cur == history[idx]
Next1 == history[idx + 1]

Start(hs, keep) ==
  /\ history \in hs
  /\ audit = keep
  /\ limit \in {NoLimit} \cup 1..MaxLimit
  /\ dirExists = FALSE
  /\ ledgerExists = FALSE
  /\ ledgerDisk = <<>>
  /\ dirFiles = {}
  /\ pc = "idle"
  /\ run = 0
  /\ downloaded_ids = {}
  /\ existing_files = {}
  /\ handleOpen = FALSE
  /\ buffer = <<>>
  /\ count = 0
  /\ idx = 0
  /\ seconds = 0
  /\ exc = "none"
  /\ waited = <<>>
  /\ log = EmptyLog
  /\ settledNow = {}
  /\ probedNow = {}
  /\ recorded = {}
  /\ loaded = {}
  /\ prevClean = FALSE
  /\ prevLog = EmptyLog

\* a fresh channel directory, histories with pairwise distinct ids
Init == Start(Histories, FALSE)

\* the same, keeping each run's events for the run that follows
InitAudit == Start(Histories, TRUE)

\* a Message Source that may yield an id more than once
InitDup == Start(DupHistories, FALSE)

\* a write that puts the entry on the handle twice
WriteTwice(id) ==
  /\ buffer' = buffer \o Entry(id) \o Entry(id)
  /\ UNCHANGED ledgerDisk

\* record_fp.write(f"{message.id}"): buffered text, flushed when the buffer is full
Write(id) ==
  LET b == buffer \o Entry(id)
  IN  IF Len(b) >= BufferSize
      THEN /\ ledgerDisk' = ledgerDisk \o b
           /\ buffer' = <<>>
      ELSE /\ buffer' = b
           /\ UNCHANGED ledgerDisk

\* a failed resolution that comes after the channel directory was created
RunResolveFailAfterMkdir ==
  /\ pc = "idle" /\ run < MaxRuns
  /\ pc' = "aborted" /\ exc' = "resolve"
  /\ dirExists' = TRUE
  /\ UNCHANGED <<ledgerExists, ledgerDisk, dirFiles, inputs, ghost, run, downloaded_ids,
                 existing_files, handleOpen, buffer, count, idx, local, log, settledNow,
                 probedNow>>

\* line 71: client.get_entity raises
RunResolveFail ==
  /\ pc = "idle" /\ run < MaxRuns
  /\ pc' = "aborted" /\ exc' = "resolve"
  /\ UNCHANGED <<disk, inputs, ghost, run, downloaded_ids, existing_files, handleOpen,
                 buffer, count, idx, local, log, settledNow, probedNow>>

\* lines 75-85: os.makedirs, or open(record_file, 'a') after it, raises
RunInitFail ==
  /\ pc = "idle" /\ run < MaxRuns
  /\ \E made \in BOOLEAN :
       /\ dirExists' = (dirExists \/ made)
       /\ IF made
          THEN /\ downloaded_ids' = (IF ledgerExists THEN Load(ledgerDisk) ELSE {})
               /\ existing_files' = dirFiles \cup (IF ledgerExists THEN {RecordName} ELSE {})
               /\ loaded' = (IF ledgerExists THEN Load(ledgerDisk) ELSE {})
          ELSE UNCHANGED <<downloaded_ids, existing_files, loaded>>
  /\ pc' = "aborted" /\ exc' = "fsinit"
  /\ UNCHANGED <<ledgerExists, ledgerDisk, dirFiles, inputs, recorded, prevClean, prevLog, run,
                 handleOpen, buffer, count, idx, local, log, settledNow, probedNow>>

\* a start that opens the ledger for writing instead of appending
RunStartTruncates ==
  /\ pc = "idle" /\ run < MaxRuns
  /\ dirExists' = TRUE
  /\ downloaded_ids' = (IF ledgerExists THEN Load(ledgerDisk) ELSE {})
  /\ loaded' = (IF ledgerExists THEN Load(ledgerDisk) ELSE {})
  /\ existing_files' = dirFiles \cup (IF ledgerExists THEN {RecordName} ELSE {})
  /\ ledgerExists' = TRUE
  /\ ledgerDisk' = <<>>
  /\ handleOpen' = TRUE
  /\ buffer' = <<>>
  /\ count' = 0
  /\ idx' = 0
  /\ pc' = "iter"
  /\ UNCHANGED <<dirFiles, inputs, recorded, prevClean, prevLog, run, local, exc,
                 log, settledNow, probedNow>>

\* lines 71-88: resolve, makedirs, load the ledger, snapshot, open for append
RunStart ==
  /\ pc = "idle" /\ run < MaxRuns
  /\ dirExists' = TRUE
  /\ downloaded_ids' = (IF ledgerExists THEN Load(ledgerDisk) ELSE {})
  /\ loaded' = (IF ledgerExists THEN Load(ledgerDisk) ELSE {})
  /\ existing_files' = dirFiles \cup (IF ledgerExists THEN {RecordName} ELSE {})
  /\ ledgerExists' = TRUE
  /\ handleOpen' = TRUE
  /\ buffer' = <<>>
  /\ count' = 0
  /\ idx' = 0
  /\ pc' = "iter"
  /\ UNCHANGED <<ledgerDisk, dirFiles, inputs, recorded, prevClean, prevLog, run, local, exc,
                 log, settledNow, probedNow>>

\* lines 89-92: the iterator yields a message without media
SkipNoMedia ==
  /\ pc = "iter" /\ idx < ScanLen
  /\ ~Next1.media
  /\ idx' = idx + 1
  /\ UNCHANGED <<disk, inputs, ghost, pc, run, downloaded_ids, existing_files, handleOpen,
                 buffer, count, local, exc, log, settledNow, probedNow>>

\* lines 94-96
SkipRecorded ==
  /\ pc = "iter" /\ idx < ScanLen
  /\ Next1.media
  /\ Str(Next1.id) \in downloaded_ids
  /\ idx' = idx + 1
  /\ log' = [log EXCEPT ![Next1.id] = Append(@, Ev("skip"))]
  /\ UNCHANGED <<disk, inputs, ghost, pc, run, downloaded_ids, existing_files, handleOpen,
                 buffer, count, local, exc, settledNow, probedNow>>

\* a probe settle that also counts as a download
SettleViaProbeCounts ==
  /\ pc = "iter" /\ idx < ScanLen
  /\ Next1.media
  /\ Str(Next1.id) \notin downloaded_ids
  /\ FileExists(Next1.id, existing_files)
  /\ downloaded_ids' = downloaded_ids \cup {Str(Next1.id)}
  /\ Write(Next1.id)
  /\ count' = count + 1
  /\ idx' = idx + 1
  /\ log' = [log EXCEPT ![Next1.id] = Append(@, Ev("write"))]
  /\ settledNow' = settledNow \cup {Next1.id}
  /\ probedNow' = probedNow \cup {Next1.id}
  /\ UNCHANGED <<dirExists, ledgerExists, dirFiles, inputs, ghost, pc, run, existing_files,
                 handleOpen, local, exc>>

\* lines 98-103
SettleViaProbe ==
  /\ pc = "iter" /\ idx < ScanLen
  /\ Next1.media
  /\ Str(Next1.id) \notin downloaded_ids
  /\ FileExists(Next1.id, existing_files)
  /\ downloaded_ids' = downloaded_ids \cup {Str(Next1.id)}
  /\ Write(Next1.id)
  /\ idx' = idx + 1
  /\ log' = [log EXCEPT ![Next1.id] = Append(@, Ev("write"))]
  /\ settledNow' = settledNow \cup {Next1.id}
  /\ probedNow' = probedNow \cup {Next1.id}
  /\ UNCHANGED <<dirExists, ledgerExists, dirFiles, inputs, ghost, pc, run, existing_files,
                 handleOpen, count, local, exc>>

\* lines 104-105: the first client.download_media call is issued
BeginFetch ==
  /\ pc = "iter" /\ idx < ScanLen
  /\ Next1.media
  /\ Str(Next1.id) \notin downloaded_ids
  /\ ~FileExists(Next1.id, existing_files)
  /\ idx' = idx + 1
  /\ pc' = "fetching"
  /\ log' = [log EXCEPT ![Next1.id] = Append(@, Ev("call"))]
  /\ UNCHANGED <<disk, inputs, ghost, run, downloaded_ids, existing_files, handleOpen,
                 buffer, count, local, exc, settledNow, probedNow>>

\* a success that does not add the id to the in-memory set
SavedForgets(name) ==
  /\ count' = count + 1
  /\ Write(Cur.id)
  /\ downloaded_ids' = downloaded_ids
  /\ existing_files' = existing_files \cup {name}
  /\ dirFiles' = dirFiles \cup {name}
  /\ log' = [log EXCEPT ![Cur.id] = @ \o <<Ev("ok"), Ev("count"), Ev("write")>>]
  /\ settledNow' = settledNow \cup {Cur.id}
  /\ pc' = "iter"

\* lines 106-111 and 116-120: the bookkeeping after a successful download
Saved(name) ==
  /\ count' = count + 1
  /\ Write(Cur.id)
  /\ downloaded_ids' = downloaded_ids \cup {Str(Cur.id)}
  /\ existing_files' = existing_files \cup {name}
  /\ dirFiles' = dirFiles \cup {name}
  /\ log' = [log EXCEPT ![Cur.id] = @ \o <<Ev("ok"), Ev("count"), Ev("write")>>]
  /\ settledNow' = settledNow \cup {Cur.id}
  /\ pc' = "iter"

\* lines 105-111
FetchOk ==
  /\ pc = "fetching"
  /\ \E name \in ArtifactNames(Cur.id) : Saved(name)
  /\ UNCHANGED <<dirExists, ledgerExists, inputs, ghost, run, handleOpen, idx, local,
                 exc, probedNow>>

\* lines 112-114: FloodWaitError on the first attempt, asyncio.sleep starts
FetchFlood ==
  /\ pc = "fetching"
  /\ \E w \in 1..MaxWait :
       /\ seconds' = w
  /\ UNCHANGED waited
       /\ log' = [log EXCEPT ![Cur.id] = Append(@, Ev("flood"))]
  /\ pc' = "sleeping"
  /\ UNCHANGED <<disk, inputs, ghost, run, downloaded_ids, existing_files, handleOpen,
                 buffer, count, idx, exc, settledNow, probedNow>>

\* lines 121-122: any other Exception on the first attempt
FetchError ==
  /\ pc = "fetching"
  /\ pc' = "iter"
  /\ log' = [log EXCEPT ![Cur.id] = Append(@, Ev("error"))]
  /\ UNCHANGED <<disk, inputs, ghost, run, downloaded_ids, existing_files, handleOpen,
                 buffer, count, idx, local, exc, settledNow, probedNow>>

\* a wake-up that also pulls the next message while the current one is unfinished
WakeUpFetchAhead ==
  /\ pc = "sleeping"
  /\ pc' = "retrying"
  /\ idx' = (IF idx < ScanLen THEN idx + 1 ELSE idx)
  /\ waited' = Append(waited, seconds)
  /\ log' = [log EXCEPT ![Cur.id] = @ \o <<Ev("slept"), Ev("call")>>]
  /\ UNCHANGED <<disk, inputs, ghost, run, downloaded_ids, existing_files, handleOpen,
                 buffer, count, seconds, exc, settledNow, probedNow>>

\* lines 114-115: the sleep ends and the second client.download_media call is issued
WakeUp ==
  /\ pc = "sleeping"
  /\ pc' = "retrying"
  /\ waited' = Append(waited, seconds)
  /\ log' = [log EXCEPT ![Cur.id] = @ \o <<Ev("slept"), Ev("call")>>]
  /\ UNCHANGED <<disk, inputs, ghost, run, downloaded_ids, existing_files, handleOpen,
                 buffer, count, idx, seconds, exc, settledNow, probedNow>>

\* lines 115-120
RetryOk ==
  /\ pc = "retrying"
  /\ \E name \in ArtifactNames(Cur.id) : Saved(name)
  /\ seconds' = 0
  /\ waited' = <<>>
  /\ UNCHANGED <<dirExists, ledgerExists, inputs, ghost, run, handleOpen, idx,
                 exc, probedNow>>

\* a retry that, on failure, waits and tries again instead of raising
RetryFailLoops ==
  /\ pc = "retrying"
  /\ pc' = "sleeping"
  /\ log' = [log EXCEPT ![Cur.id] = Append(@, Ev("error"))]
  /\ UNCHANGED <<disk, inputs, ghost, run, downloaded_ids, existing_files, handleOpen,
                 buffer, count, idx, local, exc, settledNow, probedNow>>

\* line 115: an exception raised inside the FloodWaitError handler leaves the function
RetryFail ==
  /\ pc = "retrying"
  /\ pc' = "aborted" /\ exc' = "fetcher"
  /\ log' = [log EXCEPT ![Cur.id] = Append(@, Ev("error"))]
  /\ UNCHANGED <<disk, inputs, ghost, run, downloaded_ids, existing_files, handleOpen,
                 buffer, count, idx, local, settledNow, probedNow>>

\* line 89: client.iter_messages raises
IterError ==
  /\ pc = "iter"
  /\ pc' = "aborted" /\ exc' = "source"
  /\ UNCHANGED <<disk, inputs, ghost, run, downloaded_ids, existing_files, handleOpen,
                 buffer, count, idx, local, log, settledNow, probedNow>>

\* CancelledError / KeyboardInterrupt delivered at an await of lines 105, 114, 115
Cancel ==
  /\ pc \in {"fetching", "sleeping", "retrying"}
  /\ pc' = "aborted" /\ exc' = "cancelled"
  /\ UNCHANGED <<disk, inputs, ghost, run, downloaded_ids, existing_files, handleOpen,
                 buffer, count, idx, local, log, settledNow, probedNow>>

\* lines 123-124: the sequence is exhausted, record_fp.close() flushes
IterExhausted ==
  /\ pc = "iter" /\ idx = ScanLen
  /\ ledgerDisk' = ledgerDisk \o buffer
  /\ buffer' = <<>>
  /\ handleOpen' = FALSE
  /\ pc' = "done"
  /\ UNCHANGED <<dirExists, ledgerExists, dirFiles, inputs, ghost, run, downloaded_ids,
                 existing_files, count, idx, local, exc, log, settledNow, probedNow>>

ScannedMedia == {history[i].id : i \in {j \in 1..ScanLen : history[j].media}}

\* the locals of download_media go away with the process
Reset(flushed) ==
  /\ pc' = "idle"
  /\ run' = run + 1
  /\ downloaded_ids' = {}
  /\ existing_files' = {}
  /\ handleOpen' = FALSE
  /\ buffer' = <<>>
  /\ count' = 0
  /\ idx' = 0
  /\ seconds' = 0
  /\ exc' = "none"
  /\ waited' = <<>>
  /\ log' = EmptyLog
  /\ settledNow' = {}
  /\ probedNow' = {}
  /\ recorded' = recorded \cup (IF flushed THEN settledNow ELSE {})
  /\ prevClean' = (pc = "done" /\ ScannedMedia \subseteq (recorded \cup settledNow))
  /\ prevLog' = (IF audit THEN log ELSE prevLog)
  /\ UNCHANGED <<dirExists, ledgerExists, dirFiles, inputs, loaded>>

\* lines 134-135 and 159: the process ends after a run whose handle is not open
Exit ==
  /\ pc \in {"done", "aborted"}
  /\ ~handleOpen
  /\ Reset(pc = "done")
  /\ UNCHANGED ledgerDisk

\* line 85 without a matching close: the process ends with record_fp still open;
\* the buffered text reaches the file only if the interpreter finalises the object
ExitLeaked ==
  /\ pc = "aborted"
  /\ handleOpen
  /\ \E flushed \in BOOLEAN :
       /\ ledgerDisk' = (IF flushed THEN ledgerDisk \o buffer ELSE ledgerDisk)
       /\ Reset(flushed)

Next ==
  \/ RunResolveFail
  \/ RunInitFail
  \/ RunStart
  \/ SkipNoMedia
  \/ SkipRecorded
  \/ SettleViaProbe
  \/ BeginFetch
  \/ FetchOk
  \/ FetchFlood
  \/ FetchError
  \/ WakeUp
  \/ RetryOk
  \/ RetryFail
  \/ IterError
  \/ Cancel
  \/ IterExhausted
  \/ Exit
  \/ ExitLeaked

Spec == Init /\ [][Next]_vars
SpecAudit == InitAudit /\ [][Next]_vars
SpecDup == InitDup /\ [][Next]_vars

TypeOK ==
  /\ pc \in {"idle", "iter", "fetching", "sleeping", "retrying", "done", "aborted"}
  /\ idx \in 0..MaxMsgs
  /\ run \in 0..MaxRuns

\* ------------------------------------------------------------ properties
InRun == pc \in {"iter", "fetching", "sleeping", "retrying"}
Events(l, e) == {i \in 1..Len(l) : l[i].e = e}
NumCalls(l) == Cardinality(Events(l, "call"))

\* C1 - Idempotence: a run that follows a completed run which settled every
\* scanned media message, over the same history and directory, makes no
\* successful download and reports a count of 0.
C1_Idempotence == prevClean => count = 0

\* C2 - Never re-fetch after settlement: a message whose id an earlier run wrote
\* to the ledger file is never passed to the Fetcher in a later run.
C2_NoRefetchAfterSettled == \A id \in recorded : NumCalls(log[id]) = 0

\* C3 - Ledger monotonicity: the set load reads after a run is a superset of
\* the set load read before that run.
C3_LedgerMonotone == pc = "idle" => loaded \subseteq Load(ledgerDisk)

\* C4 - Ledger round-trip: every id a run recorded to the ledger file is in the
\* set load returns at the start of any later run.
C4_LedgerRoundTrip == pc = "idle" => \A id \in recorded : Str(id) \in Load(ledgerDisk)

\* C5 - Per-message failures never abort the run: no failure of the Fetcher,
\* the retry after a rate-limit wait included, ends the run.
C5_FetcherFailureNeverAborts == exc # "fetcher"

\* C6 - Durability of progress: whenever the run is about to pull or is
\* processing a message, the ledger file on disk holds the id of every message
\* settled earlier in the run.
C6_DurableProgress == InRun => \A id \in settledNow \ (IF pc = "iter" THEN {} ELSE {Cur.id}) :
                                  Str(id) \in Load(ledgerDisk)

\* C7 - Ledger handle release: whenever a run has ended, normally or by an
\* error, the append handle is closed.
C7_HandleReleased == pc \in {"done", "aborted"} => ~handleOpen

\* C8 - Probe precedence: a message settled via the directory snapshot gets no
\* Fetcher call and no count increment, its id is in the in-memory set, and
\* once the run has completed its id is in the ledger.
C8_ProbePrecedence ==
  \A id \in probedNow :
    /\ NumCalls(log[id]) = 0
    /\ Events(log[id], "count") = {}
    /\ InRun => Str(id) \in downloaded_ids
    /\ pc = "done" => Str(id) \in Load(ledgerDisk)

RecoveredLog ==
  <<Ev("call"), Ev("flood"), Ev("slept"), Ev("call"),
    Ev("ok"), Ev("count"), Ev("write")>>

\* C9 - Rate-limit recovery: when the first attempt is rate-limited with wait w
\* and the next call succeeds, the engine has slept w once, called the Fetcher
\* exactly once more, raised the count by one and appended the id exactly once.
C9_RateLimitRecovery ==
  [][ (pc = "retrying" /\ pc' = "iter") =>
        /\ seconds \in 1..MaxWait
        /\ waited = <<seconds>>
        /\ log'[Cur.id] = RecoveredLog
        /\ count' = count + 1
        /\ ledgerDisk' \o buffer' = ledgerDisk \o buffer \o Str(Cur.id)
        /\ Str(Cur.id) \in downloaded_ids' ]_vars

C9_Witness ==
  /\ pc = "iter" /\ idx >= 1
  /\ log[Cur.id] = RecoveredLog
  /\ count >= 1

\* C10 - Bounded attempts per run: within one run the Fetcher is called for a
\* message at most twice, the second call only after a rate-limit failure of
\* the first and the wait, and nothing follows a failure of the retry.
C10_BoundedAttempts ==
  \A id \in IDS :
    LET l == log[id]
    IN  /\ NumCalls(l) <= 2
        /\ \A i \in Events(l, "call") :
              i > 1 => (i = 4 /\ l[1].e = "call" /\ l[2].e = "flood" /\ l[3].e = "slept")
        /\ \A i \in Events(l, "error") :
              i > 2 => (i = Len(l) /\ pc = "aborted")

C10_Witness ==
  /\ pc = "aborted" /\ exc = "fetcher"
  /\ NumCalls(log[Cur.id]) = 2
  /\ log[Cur.id][Len(log[Cur.id])].e = "error"

OkLog == <<Ev("call"), Ev("ok"), Ev("count"), Ev("write")>>
Text == ledgerDisk \o buffer

\* the previous run completed and every scanned media message was fetched at once
PrevAllOk == prevClean /\ \A id \in ScannedMedia : prevLog[id] = OkLog

\* C11 - Settled re-run leaves the ledger unchanged: the run that follows a
\* first run over an empty directory in which every fetch succeeded appends
\* nothing to the ledger and reports a count of 0.
C11_SettledRerunUnchanged ==
  (run = 1 /\ PrevAllOk /\ pc # "idle") =>
     (count = 0 /\ buffer = <<>> /\ settledNow = {})

\* C12 - Channel resolution failure is fatal and writes nothing: the step in
\* which resolution fails ends the run, leaves the directory and the ledger
\* file as they were, opens no handle and calls no Fetcher.
C12_ResolveFailureWritesNothing ==
  [][ (exc' = "resolve" /\ exc # "resolve") =>
        /\ pc' = "aborted"
        /\ disk' = disk
        /\ ~handleOpen' /\ buffer' = <<>>
        /\ log' = EmptyLog /\ count' = 0 ]_vars

C12_Witness == pc = "aborted" /\ exc = "resolve" /\ ~dirExists /\ ~ledgerExists

\* ids whose first attempt failed with a non-rate-limit error in the previous run
FailedPrev == {id \in IDS : prevLog[id] = <<Ev("call"), Ev("error")>>}

\* C13 - Non-rate-limit failure leaves the message unsettled: the failing
\* attempt changes neither the in-memory set, the ledger, the snapshot nor the
\* count and the engine goes on; the next run does not skip that message.
C13_FailureLeavesUnsettled ==
  /\ [][ (pc = "fetching" /\ log'[Cur.id] = Append(log[Cur.id], Ev("error"))) =>
           /\ pc' = "iter"
           /\ downloaded_ids' = downloaded_ids
           /\ Text' = Text
           /\ existing_files' = existing_files
           /\ count' = count ]_vars
  /\ [](\A id \in FailedPrev : Events(log[id], "skip") = {} /\ id \notin probedNow)

\* ids whose fetch was in flight when the previous run was cancelled
InFlightPrev ==
  {id \in IDS : prevLog[id] \in { <<Ev("call")>>,
                                  <<Ev("call"), Ev("flood"), Ev("slept"), Ev("call")>> }}

\* C14 - Record only after success: an id is written to the ledger only right
\* after its download succeeded or the probe found its artifact; an id whose
\* fetch was in flight at cancellation is not in the ledger and is not skipped
\* by the next run.
C14_RecordOnlyAfterSuccess ==
  /\ \A id \in IDS : \A i \in Events(log[id], "write") :
        \/ i = 1 /\ id \in probedNow
        \/ i >= 3 /\ log[id][i - 1].e = "count" /\ log[id][i - 2].e = "ok"
  /\ \A id \in InFlightPrev :
        /\ pc = "idle" => Str(id) \notin Load(ledgerDisk)
        /\ Events(log[id], "skip") = {}

\* C15 - Every pulled message reaches a terminal state: a run whose set-up and
\* Message Source did not fail and that was not cancelled ends with every
\* scanned message processed, the handle released and the count reported.
C15_RunCompletes ==
  (pc \in {"done", "aborted"} /\ exc \notin {"resolve", "fsinit", "source", "cancelled"}) =>
     (pc = "done" /\ ~handleOpen /\ idx = ScanLen)

\* C16 - No double append within a run: every text appended to the handle is
\* one entry and is logged as a write of its id, and no id has more than one
\* write in a run, also when the Message Source yields the id again.
C16_NoDoubleAppend ==
  /\ [](\A id \in IDS : Cardinality(Events(log[id], "write")) <= 1)
  /\ [][ (pc' # "idle" /\ Text' # Text) =>
           \E id \in IDS : /\ Text' = Text \o Str(id)
                            /\ Len(log'[id]) > Len(log[id])
                            /\ log'[id][Len(log'[id])].e = "write" ]_vars

C16_Witness ==
  /\ pc = "iter" /\ idx = 2
  /\ history[1].id = history[2].id
  /\ history[1].media /\ history[2].media
  /\ Cardinality(Events(log[history[1].id], "write")) = 1
  /\ Events(log[history[1].id], "skip") # {}

\* C17 - Append-only state: no step of a run removes an id from the in-memory
\* set, and the ledger file before any step is a prefix of the file after it.
C17_AppendOnly ==
  [][ /\ pc' # "idle" => downloaded_ids \subseteq downloaded_ids'
      /\ StartsWith(ledgerDisk', ledgerDisk) ]_vars

C17_Witness ==
  /\ pc = "done" /\ run >= 1
  /\ loaded # {} /\ settledNow # {}
  /\ Len(ledgerDisk) >= 2

\* C18 - Strict sequentiality: while a message is being fetched or waited for,
\* no step pulls another message, calls the Fetcher for or writes the ledger
\* entry of another message; messages are pulled only between messages.
C18_Sequential ==
  [][ /\ (idx' # idx /\ pc' # "idle") => pc = "iter"
      /\ pc \in {"fetching", "sleeping", "retrying"} =>
            /\ idx' = idx
            /\ \A id \in IDS \ {Cur.id} : log'[id] = log[id]
            /\ Text' \in {Text, Text \o Str(Cur.id)} ]_vars

C18_Witness == pc = "sleeping" /\ idx < ScanLen /\ Next1.media

\* C19 - No phantom settlement: a media message is skipped as already recorded
\* only if an earlier run wrote that very id to the ledger file.
C19_NoPhantomSettlement ==
  \A id \in IDS : Events(log[id], "skip") # {} => id \in recorded

\* C20 - Reported count: at the end of a completed run the count is the number
\* of messages whose Fetcher call succeeded, which is the number of ids settled
\* by download; skipped, probed and failed messages add nothing.
C20_ReportedCount ==
  pc = "done" =>
    /\ count = Cardinality({id \in IDS : Events(log[id], "ok") # {}})
    /\ count = Cardinality(settledNow \ probedNow)

C20_Witness ==
  /\ pc = "done" /\ count = 1
  /\ probedNow # {}
  /\ \E id \in IDS : log[id] = <<Ev("call"), Ev("error")>>

====
